---- MODULE Spec2Model ----
(***************************************************************************)
(* Model of the document assembly pipeline of rendercv's templater:        *)
(* get_jinja2_environment, render_single_template and render_full_template *)
(* (src/src/rendercv/renderer/templater/templater.py).                     *)
(*                                                                         *)
(* A Python string is a sequence of pieces.  A piece is either a literal   *)
(* (the text of an f-string between two substitutions) or the output of    *)
(* one template.render call, which records the file that was loaded and    *)
(* the keyword arguments it was rendered with.                             *)
(***************************************************************************)
EXTENDS Naturals, Sequences, FiniteSets, TLC

\* Bounds of the inputs.
MaxSections == 2
MaxEntries == 2

\* Bound of the calls a caller makes in sequence.
MaxCalls == 2

----------------------------------------------------------------------------
\* Strings

NoKw == [section_title |-> "", snake_case_section_title |-> "",
         entry_type |-> "", entry |-> "", html_body |-> <<>>]

NoFile == [root |-> "", name |-> <<>>]

Lit(s) == [lit |-> s, file |-> NoFile, kw |-> NoKw, processed |-> ""]

Str(s) == <<Lit(s)>>

IsRendered(piece) == piece.file # NoFile

\* str.join
RECURSIVE Join(_, _)
Join(sep, strs) ==
    IF Len(strs) = 0 THEN <<>>
    ELSE IF Len(strs) = 1 THEN Head(strs)
    ELSE Head(strs) \o sep \o Join(sep, Tail(strs))

Range(s) == {s[i] : i \in 1..Len(s)}

----------------------------------------------------------------------------
\* The file system and the template environment

templates_directory == "templates"

\* The working directory of the process when it starts.
Cwd == "cwd"

\* pathlib.Path.cwd(): the working directory of the process now.
VARIABLE cwd

NoPath == "None"

InputPaths == {NoPath, "project/cv.yaml"}

\* pathlib.Path.parent of the input files of the model
Parent(path) ==
    CASE path = "project/cv.yaml" -> "project"
      [] path = "project/other.yaml" -> "project"
      [] path = "elsewhere/cv.yaml" -> "elsewhere"
      [] OTHER -> "."

SearchPath_built_in_first(input_file_path) ==
    << templates_directory,
       IF input_file_path # NoPath THEN Parent(input_file_path) ELSE cwd >>

\* The search path of the FileSystemLoader built for an input file path.
SearchPath(input_file_path) ==
    << IF input_file_path # NoPath THEN Parent(input_file_path) ELSE cwd,
       templates_directory >>

\* functools.lru_cache(maxsize=1): a sequence of at most one entry.  The
\* cache is never cleared, so the environment it holds is the one built last,
\* and serial, the identity of the object, counts the constructions.
Built(cache) == IF cache = <<>> THEN 0 ELSE cache[1].serial

\* Lines 34-48: the environment a call of the function body builds.
Environment(cache, input_file_path) ==
    [key |-> input_file_path, searchpath |-> SearchPath(input_file_path),
     serial |-> Built(cache) + 1]

\* The environment of the first construction of the process.
NewEnvironment(input_file_path) == Environment(<<>>, input_file_path)

CacheHit_by_directory(cache, input_file_path) ==
    Len(cache) = 1 /\ SearchPath(cache[1].key) = SearchPath(input_file_path)

CacheHit(cache, input_file_path) ==
    Len(cache) = 1 /\ cache[1].key = input_file_path

get_jinja2_environment_keeping_two(cache, input_file_path) ==
    IF \E i \in 1..Len(cache) : cache[i].key = input_file_path
    THEN [env |-> cache[CHOOSE i \in 1..Len(cache) :
                           cache[i].key = input_file_path],
          cache |-> cache]
    ELSE [env |-> Environment(cache, input_file_path),
          cache |-> <<Environment(cache, input_file_path)>>
                        \o (IF cache = <<>> THEN <<>> ELSE <<cache[1]>>)]

get_jinja2_environment_rebuilding(cache, input_file_path) ==
    [env |-> Environment(cache, input_file_path),
     cache |-> <<Environment(cache, input_file_path)>>]

get_jinja2_environment_uncached(cache, input_file_path) ==
    [env |-> Environment(cache, input_file_path), cache |-> cache]

get_jinja2_environment_stale_hit(cache, input_file_path) ==
    IF CacheHit(cache, input_file_path)
    THEN [env |-> [cache[1] EXCEPT !.searchpath = <<>>], cache |-> cache]
    ELSE [env |-> Environment(cache, input_file_path),
          cache |-> <<Environment(cache, input_file_path)>>]

get_jinja2_environment(cache, input_file_path) ==
    IF CacheHit(cache, input_file_path)
    THEN [env |-> cache[1], cache |-> cache]
    ELSE [env |-> Environment(cache, input_file_path),
          cache |-> <<Environment(cache, input_file_path)>>]

\* FileSystemLoader.get_source: the first directory of the search path that
\* holds the name; "" when none does (jinja2.TemplateNotFound).
RECURSIVE FirstRoot(_, _, _)
FirstRoot(files, searchpath, name) ==
    IF Len(searchpath) = 0 THEN ""
    ELSE IF [root |-> Head(searchpath), name |-> name] \in files
         THEN Head(searchpath)
         ELSE FirstRoot(files, Tail(searchpath), name)

get_template(files, env, name) ==
    LET r == FirstRoot(files, env.searchpath, name)
    IN  IF r = "" THEN NoFile ELSE [root |-> r, name |-> name]

----------------------------------------------------------------------------
\* The model handed to the renderer

Themes == {"classic", "sidebar"}

EntryTypes == {"NormalEntry", "OneLineEntry"}

Entries == {"e1", "e2"}

SnakeCaseTitles == {"experience", "skills"}

\* The display title of a section, from which its snake_case_title is made.
TitleOf(snake) == IF snake = "experience" THEN "Experience" ELSE "Skills"

\* Sequences over S of length at most n.
RECURSIVE SeqsUpTo(_, _)
SeqsUpTo(S, n) ==
    IF n = 0 THEN {<<>>}
    ELSE LET shorter == SeqsUpTo(S, n - 1)
         IN  shorter \cup {Append(q, x) : q \in shorter, x \in S}

RenderCVSections ==
    [title : {"Experience", "Skills"}, snake_case_title : SnakeCaseTitles,
     entry_type : EntryTypes, entries : SeqsUpTo(Entries, MaxEntries)]

RECURSIVE EntryTotal(_)
EntryTotal(sections) ==
    IF Len(sections) = 0 THEN 0
    ELSE Len(Head(sections).entries) + EntryTotal(Tail(sections))

\* cv.rendercv_sections: the sections of a dict keyed by title, so no title
\* (and no snake_case_title) occurs twice.  MaxEntries bounds the entries of
\* the whole cv.
SectionLists ==
    {ss \in SeqsUpTo({sec \in RenderCVSections :
                         sec.title = TitleOf(sec.snake_case_title)},
                     MaxSections) :
        /\ \A i, j \in 1..Len(ss) :
               ss[i].snake_case_title = ss[j].snake_case_title => i = j
        /\ EntryTotal(ss) <= MaxEntries}

\* Sidebar (sidebar_theme.py): width, position, gutter and sections.
\* The last list has an element in title case, an element that names no
\* section and a repeated element: the field is a plain list[str].
SidebarSectionLists ==
    {<<>>, <<"skills">>, <<"experience">>, <<"skills", "experience">>,
     <<"Skills", "hobbies", "experience", "experience">>}

Sidebars ==
    [width : {"30%"}, position : {"left", "right"}, gutter : {"0.5cm"},
     sections : SidebarSectionLists]

PlainSidebar ==
    [width |-> "30%", position |-> "left", gutter |-> "0.5cm", sections |-> <<>>]

NoSidebar == [width |-> "", position |-> "", gutter |-> "", sections |-> <<>>]

\* A design is one of the theme classes.  SidebarTheme has the sidebar field;
\* has_sidebar is hasattr(design, 'sidebar').
Designs ==
    {[theme |-> "classic", has_sidebar |-> FALSE, sidebar |-> NoSidebar]}
    \cup [theme : {"sidebar"}, has_sidebar : {TRUE}, sidebar : Sidebars]
    \cup {[theme |-> "sidebar", has_sidebar |-> FALSE, sidebar |-> NoSidebar]}

RenderCVModels ==
    [cv : [rendercv_sections : SectionLists], design : Designs,
     input_file_path : InputPaths, processed : {""}]

\* The models of the full renders: all of them read from the project.
FullModels == {m \in RenderCVModels : m.input_file_path = "project/cv.yaml"}

\* model_processor.process_model: returns the model prepared for a format.
process_model(m, file_type) == [m EXCEPT !.processed = file_type]

\* markdown_parser.markdown_to_html: the HTML fragment of a
\* Markdown document, kept as the application of the converter to it.
markdown_to_html(md) == Str("markdown_to_html(") \o md \o Str(")")

----------------------------------------------------------------------------
\* render_single_template

Rendered(template, m, kw) ==
    [lit |-> "", file |-> template, kw |-> kw, processed |-> m.processed]

ThemeProbe(relative_template_path, m) ==
    <<m.design.theme, "/">> \o relative_template_path

FormatProbe(file_type, relative_template_path) ==
    <<file_type, "/">> \o relative_template_path

\* Both names probed in the override directory before the built-in one.
render_single_template_root_first(files, cache, file_type, relative_template_path, m, kw) ==
    LET g == get_jinja2_environment(cache, m.input_file_path)
        names == IF file_type = "typst"
                 THEN <<ThemeProbe(relative_template_path, m),
                        FormatProbe(file_type, relative_template_path)>>
                 ELSE <<FormatProbe(file_type, relative_template_path)>>
        found == {f \in files :
                     /\ \E i \in 1..Len(names) : f.name = names[i]
                     /\ \E j \in 1..Len(g.env.searchpath) :
                            f.root = g.env.searchpath[j]}
        before(a, b) ==
            LET ra == CHOOSE j \in 1..Len(g.env.searchpath) :
                          g.env.searchpath[j] = a.root
                rb == CHOOSE j \in 1..Len(g.env.searchpath) :
                          g.env.searchpath[j] = b.root
            IN  ra < rb \/ (ra = rb /\ a.name = names[1])
        template ==
            IF found = {} THEN NoFile
            ELSE CHOOSE f \in found : \A h \in found \ {f} : before(f, h)
    IN  IF template = NoFile
        THEN [ok |-> FALSE, out |-> <<>>, cache |-> g.cache,
              missing |-> FormatProbe(file_type, relative_template_path)]
        ELSE [ok |-> TRUE, out |-> <<Rendered(template, m, kw)>>,
              cache |-> g.cache, missing |-> <<>>]

\* The format's directory probed before the theme's.
render_single_template_format_first(files, cache, file_type, relative_template_path, m, kw) ==
    LET g == get_jinja2_environment(cache, m.input_file_path)
        plain == get_template(files, g.env,
                              FormatProbe(file_type, relative_template_path))
        template ==
            IF plain # NoFile \/ file_type # "typst" THEN plain
            ELSE get_template(files, g.env,
                              ThemeProbe(relative_template_path, m))
    IN  IF template = NoFile
        THEN [ok |-> FALSE, out |-> <<>>, cache |-> g.cache,
              missing |-> FormatProbe(file_type, relative_template_path)]
        ELSE [ok |-> TRUE, out |-> <<Rendered(template, m, kw)>>,
              cache |-> g.cache, missing |-> <<>>]

\* The miss of the theme's probe not suppressed.
render_single_template_no_suppress(files, cache, file_type, relative_template_path, m, kw) ==
    LET g == get_jinja2_environment(cache, m.input_file_path)
        template ==
            IF file_type = "typst"
            THEN get_template(files, g.env,
                              ThemeProbe(relative_template_path, m))
            ELSE get_template(files, g.env,
                              FormatProbe(file_type, relative_template_path))
    IN  IF template = NoFile
        THEN [ok |-> FALSE, out |-> <<>>, cache |-> g.cache,
              missing |-> FormatProbe(file_type, relative_template_path)]
        ELSE [ok |-> TRUE, out |-> <<Rendered(template, m, kw)>>,
              cache |-> g.cache, missing |-> <<>>]

render_single_template(files, cache, file_type, relative_template_path, m, kw) ==
    LET g == get_jinja2_environment(cache, m.input_file_path)
        themed ==
            IF file_type = "typst"
            THEN get_template(files, g.env,
                              ThemeProbe(relative_template_path, m))
            ELSE NoFile
        template ==
            IF themed # NoFile THEN themed
            ELSE get_template(files, g.env,
                              FormatProbe(file_type, relative_template_path))
    IN  IF template = NoFile
        THEN [ok |-> FALSE, out |-> <<>>, cache |-> g.cache,
              missing |-> FormatProbe(file_type, relative_template_path)]
        ELSE [ok |-> TRUE, out |-> <<Rendered(template, m, kw)>>,
              cache |-> g.cache, missing |-> <<>>]

----------------------------------------------------------------------------
\* render_full_template

VARIABLES
    files,                  \* the template files on disk: [root, name]
    lru_cache,              \* the cache of get_jinja2_environment
    model_in,               \* the rendercv_model argument
    file_type,              \* the file_type argument
    rendercv_model,         \* the model after process_model
    header,
    sidebar_section_names,
    main_section_names,
    code,
    sidebar_sections_code,
    main_sections_code,
    idx,                    \* position of the section loop in rendercv_sections
    pc,
    called,                 \* the function the caller called
    relative_template_path, \* the argument of a direct render_single_template
    result,                 \* what the call gave back to its caller
    markdown,               \* the markdown argument of render_html
    collaborator_calls,     \* the calls of process_model and markdown_to_html
    history,                \* what the earlier calls gave back
    renders,                \* the finished renders of the process, in order
    threads                 \* the threads inside get_jinja2_environment

vars == <<files, lru_cache, model_in, file_type, rendercv_model, header,
          sidebar_section_names, main_section_names, code,
          sidebar_sections_code, main_sections_code, idx, pc, called,
          relative_template_path, result, markdown, collaborator_calls,
          history, cwd, renders, threads>>

Extensions == {"typst", "markdown"}

extension(ft) == IF ft = "typst" THEN "typ" ELSE "md"

NoResult == [status |-> "none", value |-> <<>>, exc |-> "", missing |-> <<>>]

Returned_with_trailing_newline(value) ==
    [status |-> "returned", value |-> value \o Str("\n"), exc |-> "",
     missing |-> <<>>]

Returned(value) ==
    [status |-> "returned", value |-> value, exc |-> "", missing |-> <<>>]

Raised_with_partial(exc, missing, partial) ==
    [status |-> "raised", value |-> partial, exc |-> exc, missing |-> missing]

Raised(exc, missing, partial) ==
    [status |-> "raised", value |-> <<>>, exc |-> exc, missing |-> missing]

is_sidebar_theme == rendercv_model.design.theme = "sidebar"

two_column_any_format == is_sidebar_theme

\* Line 115: the test that selects the two-column layout.
two_column == is_sidebar_theme /\ file_type = "typst"

append_section_in_front(document, block) == block \o Str("\n") \o document

\* Line 216.
append_section(document, block) == document \o Str("\n") \o block

HeaderPath(ft) == <<"Header.j2.", extension(ft)>>
PreamblePath(ft) == <<"Preamble.j2.", extension(ft)>>
SectionBeginningPath(ft) == <<"SectionBeginning.j2.", extension(ft)>>
SectionEndingPath(ft) == <<"SectionEnding.j2.", extension(ft)>>
EntryPath(ft, entry_type) == <<"entries/", entry_type, ".j2.", extension(ft)>>

\* The entries collected last to first.
RECURSIVE entry_codes_reversed(_, _, _, _, _, _)
entry_codes_reversed(fs, cache, ft, m, section, i) ==
    IF i > Len(section.entries)
    THEN [ok |-> TRUE, codes |-> <<>>, cache |-> cache, missing |-> <<>>]
    ELSE LET r == render_single_template(
                      fs, cache, ft, EntryPath(ft, section.entry_type), m,
                      [NoKw EXCEPT !.entry = section.entries[i]])
         IN  IF ~r.ok
             THEN [ok |-> FALSE, codes |-> <<>>, cache |-> r.cache,
                   missing |-> r.missing]
             ELSE LET rest == entry_codes_reversed(fs, r.cache, ft, m,
                                                   section, i + 1)
                  IN  [rest EXCEPT !.codes = rest.codes \o <<r.out>>]

\* An entry whose template is not found left out.
RECURSIVE entry_codes_skip_missing(_, _, _, _, _, _)
entry_codes_skip_missing(fs, cache, ft, m, section, i) ==
    IF i > Len(section.entries)
    THEN [ok |-> TRUE, codes |-> <<>>, cache |-> cache, missing |-> <<>>]
    ELSE LET r == render_single_template(
                      fs, cache, ft, EntryPath(ft, section.entry_type), m,
                      [NoKw EXCEPT !.entry = section.entries[i]])
             rest == entry_codes_skip_missing(fs, r.cache, ft, m, section, i + 1)
         IN  IF ~r.ok THEN rest
             ELSE [rest EXCEPT !.codes = <<r.out>> \o rest.codes]

\* The loop over rendercv_section.entries: the rendered entries from the
\* i-th on, or the first lookup that failed.
RECURSIVE entry_codes(_, _, _, _, _, _)
entry_codes(fs, cache, ft, m, section, i) ==
    IF i > Len(section.entries)
    THEN [ok |-> TRUE, codes |-> <<>>, cache |-> cache, missing |-> <<>>]
    ELSE LET r == render_single_template(
                      fs, cache, ft, EntryPath(ft, section.entry_type), m,
                      [NoKw EXCEPT !.entry = section.entries[i]])
         IN  IF ~r.ok
             THEN [ok |-> FALSE, codes |-> <<>>, cache |-> r.cache,
                   missing |-> r.missing]
             ELSE LET rest == entry_codes(fs, r.cache, ft, m, section, i + 1)
                  IN  [rest EXCEPT !.codes = <<r.out>> \o rest.codes]

\* The body of the section loop up to section_code.
section_code_skipping_empty_entries(fs, cache, ft, m, section) ==
    LET section_beginning ==
            render_single_template(
                fs, cache, ft, SectionBeginningPath(ft), m,
                [NoKw EXCEPT !.section_title = section.title,
                             !.snake_case_section_title = section.snake_case_title,
                             !.entry_type = section.entry_type])
        section_ending ==
            render_single_template(
                fs, section_beginning.cache, ft, SectionEndingPath(ft), m,
                [NoKw EXCEPT !.entry_type = section.entry_type])
        entries == entry_codes(fs, section_ending.cache, ft, m, section, 1)
    IN  IF ~section_beginning.ok
        THEN [ok |-> FALSE, out |-> <<>>, cache |-> section_beginning.cache,
              missing |-> section_beginning.missing]
        ELSE IF ~section_ending.ok
        THEN [ok |-> FALSE, out |-> <<>>, cache |-> section_ending.cache,
              missing |-> section_ending.missing]
        ELSE IF ~entries.ok
        THEN [ok |-> FALSE, out |-> <<>>, cache |-> entries.cache,
              missing |-> entries.missing]
        ELSE [ok |-> TRUE,
              out |-> IF entries.codes = <<>>
                      THEN section_beginning.out \o Str("\n")
                               \o section_ending.out
                      ELSE section_beginning.out \o Str("\n")
                               \o Join(Str("\n\n"), entries.codes)
                               \o Str("\n") \o section_ending.out,
              cache |-> entries.cache, missing |-> <<>>]

section_code(fs, cache, ft, m, section) ==
    LET section_beginning ==
            render_single_template(
                fs, cache, ft, SectionBeginningPath(ft), m,
                [NoKw EXCEPT !.section_title = section.title,
                             !.snake_case_section_title = section.snake_case_title,
                             !.entry_type = section.entry_type])
        section_ending ==
            render_single_template(
                fs, section_beginning.cache, ft, SectionEndingPath(ft), m,
                [NoKw EXCEPT !.entry_type = section.entry_type])
        entries == entry_codes(fs, section_ending.cache, ft, m, section, 1)
    IN  IF ~section_beginning.ok
        THEN [ok |-> FALSE, out |-> <<>>, cache |-> section_beginning.cache,
              missing |-> section_beginning.missing]
        ELSE IF ~section_ending.ok
        THEN [ok |-> FALSE, out |-> <<>>, cache |-> section_ending.cache,
              missing |-> section_ending.missing]
        ELSE IF ~entries.ok
        THEN [ok |-> FALSE, out |-> <<>>, cache |-> entries.cache,
              missing |-> entries.missing]
        ELSE [ok |-> TRUE,
              out |-> section_beginning.out \o Str("\n")
                      \o Join(Str("\n\n"), entries.codes)
                      \o Str("\n") \o section_ending.out,
              cache |-> entries.cache, missing |-> <<>>]

\* The grid of the two-column layout.
grid_without_empty_cells(first_width, second_width, gutter, first_content, second_content) ==
    Str("\n#grid(\n  columns: (") \o Str(first_width) \o Str(", ")
        \o Str(second_width) \o Str("),\n  gutter: ") \o Str(gutter)
        \o (IF first_content = <<>> THEN <<>>
            ELSE Str(",\n  [\n") \o first_content \o Str("\n  ]"))
        \o (IF second_content = <<>> THEN <<>>
            ELSE Str(",\n  [\n") \o second_content \o Str("\n  ]"))
        \o Str("\n)\n")

grid_cells_swapped(first_width, second_width, gutter, first_content, second_content) ==
    Str("\n#grid(\n  columns: (") \o Str(first_width) \o Str(", ")
        \o Str(second_width) \o Str("),\n  gutter: ") \o Str(gutter)
        \o Str(",\n  [\n") \o second_content \o Str("\n  ],\n  [\n")
        \o first_content \o Str("\n  ]\n)\n")

grid(first_width, second_width, gutter, first_content, second_content) ==
    Str("\n#grid(\n  columns: (") \o Str(first_width) \o Str(", ")
    \o Str(second_width) \o Str("),\n  gutter: ") \o Str(gutter)
    \o Str(",\n  [\n") \o first_content \o Str("\n  ],\n  [\n")
    \o second_content \o Str("\n  ]\n)\n")

\* convert_section_titles_to_snake_case (sidebar_theme.py, line 488), the
\* validator of show_time_spans_in, which sidebar.sections does not have.
snake_case(section_title) ==
    CASE section_title = "Skills" -> "skills"
      [] section_title = "Experience" -> "experience"
      [] OTHER -> section_title

\* The elements of sidebar.sections normalised before the test.
RECURSIVE section_names_normalising(_, _, _)
section_names_normalising(sections, sidebar_config_sections, in_sidebar) ==
    IF Len(sections) = 0 THEN <<>>
    ELSE LET title == Head(sections).snake_case_title
             rest == section_names_normalising(Tail(sections),
                                               sidebar_config_sections,
                                               in_sidebar)
             normalised == {snake_case(x) : x \in sidebar_config_sections}
         IN  IF (title \in normalised) = in_sidebar
             THEN <<title>> \o rest
             ELSE rest

\* The display title tested in place of the snake_case_title.
RECURSIVE section_names_by_title(_, _, _)
section_names_by_title(sections, sidebar_config_sections, in_sidebar) ==
    IF Len(sections) = 0 THEN <<>>
    ELSE LET rest == section_names_by_title(Tail(sections),
                                            sidebar_config_sections, in_sidebar)
         IN  IF (Head(sections).title \in sidebar_config_sections) = in_sidebar
             THEN <<Head(sections).snake_case_title>> \o rest
             ELSE rest

\* The split of the sections into the sidebar and the main names.
RECURSIVE section_names(_, _, _)
section_names(sections, sidebar_config_sections, in_sidebar) ==
    IF Len(sections) = 0 THEN <<>>
    ELSE LET title == Head(sections).snake_case_title
             rest == section_names(Tail(sections), sidebar_config_sections,
                                   in_sidebar)
         IN  IF (title \in sidebar_config_sections) = in_sidebar
             THEN <<title>> \o rest
             ELSE rest

\* The template files of the built-in templates directory that a render of
\* the format can ask for.
BuiltInFiles(ft) ==
    {[root |-> templates_directory, name |-> FormatProbe(ft, rel)] :
        rel \in {HeaderPath(ft), SectionBeginningPath(ft), SectionEndingPath(ft)}
                \cup (IF ft = "typst" THEN {PreamblePath(ft)} ELSE {})
                \cup {EntryPath(ft, t) : t \in EntryTypes}}

AllBuiltInFiles == BuiltInFiles("typst") \cup BuiltInFiles("markdown")

\* The built-in directory as installed, or with one of the templates the
\* render asks for taken away.  A render stops at the first lookup that
\* fails, so a second missing template would never be looked up.
FileSystems(ft) ==
    {AllBuiltInFiles} \cup
    {AllBuiltInFiles \ {f} : f \in IF ft \in Extensions THEN BuiltInFiles(ft) ELSE {}}

\* The files one render_single_template call can find: the probed names in
\* the directories a caller can be in, and in the built-in directory.
ProbeFiles(ft, rel) ==
    [root : {"project", Cwd, templates_directory},
     name : {<<theme, "/">> \o rel : theme \in Themes} \cup {FormatProbe(ft, rel)}]

DirectPath(ft) == IF ft = "html" THEN <<"Full.html">> ELSE HeaderPath(ft)

NoSections == [rendercv_sections |-> <<>>]

\* The threads that can be inside get_jinja2_environment at the same time.
Threads == {"t1", "t2"}

NoEnvironment == [key |-> "", searchpath |-> <<>>, serial |-> 0]

\* A thread: where it is in the call, the environment the call gave it
\* and the template it resolved with it.
IdleThread ==
    [pc |-> "idle", env |-> NoEnvironment, template |-> NoFile,
     missed |-> FALSE]

\* The process before its first call: nothing cached, no locals.
InitProcess ==
    /\ cwd = Cwd
    /\ lru_cache = <<>>
    /\ rendercv_model = model_in
    /\ header = <<>>
    /\ sidebar_section_names = <<>>
    /\ main_section_names = <<>>
    /\ code = <<>>
    /\ sidebar_sections_code = <<>>
    /\ main_sections_code = <<>>
    /\ idx = 0
    /\ result = NoResult
    /\ collaborator_calls = <<>>
    /\ history = <<>>
    /\ renders = <<>>

InitLocals ==
    /\ InitProcess
    /\ threads = [t \in Threads |-> IdleThread]

\* A caller about to call render_full_template.
InitFull ==
    /\ called = "render_full_template"
    /\ file_type \in {"typst", "markdown", "html", "pdf"}
    /\ files \in FileSystems(file_type)
    /\ model_in \in FullModels
    /\ relative_template_path = <<>>
    /\ markdown = <<>>
    /\ pc = "start"
    /\ InitLocals

\* A caller about to call render_single_template.
InitSingle ==
    /\ called = "render_single_template"
    /\ file_type \in {"typst", "markdown", "html"}
    /\ relative_template_path = DirectPath(file_type)
    /\ files \in SUBSET ProbeFiles(file_type, relative_template_path)
    /\ model_in \in {m \in RenderCVModels :
                        /\ m.cv = NoSections
                        /\ m.design.sidebar \in {NoSidebar, PlainSidebar}}
    /\ markdown = <<>>
    /\ pc = "single"
    /\ InitLocals

\* The Markdown documents handed to render_html: the empty one, and one with
\* content.
Markdowns == {<<>>, Str("# Jane Doe\n")}

\* A caller about to call render_html; the two arguments of line 244-245 that
\* are literals in the code are held in file_type and relative_template_path.
InitHtml ==
    /\ called = "render_html"
    /\ file_type = "html"
    /\ relative_template_path = <<"Full.html">>
    /\ files \in SUBSET ProbeFiles("html", <<"Full.html">>)
    /\ model_in \in {m \in RenderCVModels :
                        /\ m.cv = NoSections
                        /\ m.design.sidebar \in {NoSidebar, PlainSidebar}}
    /\ markdown \in Markdowns
    /\ pc = "html"
    /\ InitLocals

Init == InitFull \/ InitSingle \/ InitHtml

Raise(exc, missing) ==
    /\ result' = Raised(exc, missing, code)
    /\ pc' = "done"

\* Lines 77-82: the extension of the format, then process_model.
Start_processing_first ==
    /\ pc = "start"
    /\ rendercv_model' = process_model(model_in, file_type)
    /\ collaborator_calls' =
           Append(collaborator_calls, <<"process_model", file_type>>)
    /\ IF file_type \notin Extensions
       THEN Raise("KeyError", <<>>)
       ELSE /\ pc' = "header"
            /\ UNCHANGED result
    /\ UNCHANGED <<files, lru_cache, model_in, file_type, header,
                   sidebar_section_names, main_section_names, code,
                   sidebar_sections_code, main_sections_code, idx, called,
                   relative_template_path>>
    /\ UNCHANGED <<markdown, history>>
    /\ UNCHANGED <<cwd, renders, threads>>

Start_processing_for_typst ==
    /\ pc = "start"
    /\ IF file_type \notin Extensions
       THEN /\ Raise("KeyError", <<>>)
            /\ UNCHANGED <<rendercv_model, collaborator_calls>>
       ELSE /\ rendercv_model' = process_model(model_in, "typst")
            /\ collaborator_calls' =
                   Append(collaborator_calls, <<"process_model", "typst">>)
            /\ pc' = "header"
            /\ UNCHANGED result
    /\ UNCHANGED <<files, lru_cache, model_in, file_type, header,
                   sidebar_section_names, main_section_names, code,
                   sidebar_sections_code, main_sections_code, idx, called,
                   relative_template_path>>
    /\ UNCHANGED <<markdown, history>>
    /\ UNCHANGED <<cwd, renders, threads>>

Start ==
    /\ pc = "start"
    /\ IF file_type \notin Extensions
       THEN /\ Raise("KeyError", <<>>)
            /\ UNCHANGED <<rendercv_model, collaborator_calls>>
       ELSE /\ rendercv_model' = process_model(model_in, file_type)
            /\ collaborator_calls' =
                   Append(collaborator_calls, <<"process_model", file_type>>)
            /\ pc' = "header"
            /\ UNCHANGED result
    /\ UNCHANGED <<files, lru_cache, model_in, file_type, header,
                   sidebar_section_names, main_section_names, code,
                   sidebar_sections_code, main_sections_code, idx, called,
                   relative_template_path>>
    /\ UNCHANGED <<markdown, history>>
    /\ UNCHANGED <<cwd, renders, threads>>

\* Lines 84-88.
RenderHeader ==
    /\ pc = "header"
    /\ LET r == render_single_template(files, lru_cache, file_type,
                                       HeaderPath(file_type), rendercv_model, NoKw)
       IN  /\ lru_cache' = r.cache
           /\ IF r.ok
              THEN /\ header' = r.out
                   /\ pc' = "partition"
                   /\ UNCHANGED result
              ELSE /\ Raise("TemplateNotFound", r.missing)
                   /\ UNCHANGED header
    /\ UNCHANGED <<files, model_in, file_type, rendercv_model,
                   sidebar_section_names, main_section_names, code,
                   sidebar_sections_code, main_sections_code, idx, called,
                   relative_template_path>>
    /\ UNCHANGED <<markdown, collaborator_calls, history>>
    /\ UNCHANGED <<cwd, renders, threads>>

\* Lines 90-102.
Partition_consuming_sidebar_list ==
    /\ pc = "partition"
    /\ IF is_sidebar_theme /\ rendercv_model.design.has_sidebar
       THEN LET sidebar_config_sections ==
                    Range(rendercv_model.design.sidebar.sections)
                sections == rendercv_model.cv.rendercv_sections
            IN  /\ sidebar_section_names' =
                       section_names(sections, sidebar_config_sections, TRUE)
                /\ main_section_names' =
                       section_names(sections, sidebar_config_sections, FALSE)
                /\ rendercv_model' =
                       [rendercv_model EXCEPT !.design.sidebar.sections = <<>>]
       ELSE /\ sidebar_section_names' = <<>>
            /\ main_section_names' = <<>>
            /\ UNCHANGED rendercv_model
    /\ pc' = "preamble"
    /\ UNCHANGED <<files, lru_cache, model_in, file_type, header,
                   code, sidebar_sections_code, main_sections_code, idx, result,
                   called, relative_template_path>>
    /\ UNCHANGED <<markdown, collaborator_calls, history>>
    /\ UNCHANGED <<cwd, renders, threads>>

Partition ==
    /\ pc = "partition"
    /\ IF is_sidebar_theme /\ rendercv_model.design.has_sidebar
       THEN LET sidebar_config_sections ==
                    Range(rendercv_model.design.sidebar.sections)
                sections == rendercv_model.cv.rendercv_sections
            IN  /\ sidebar_section_names' =
                       section_names(sections, sidebar_config_sections, TRUE)
                /\ main_section_names' =
                       section_names(sections, sidebar_config_sections, FALSE)
       ELSE /\ sidebar_section_names' = <<>>
            /\ main_section_names' = <<>>
    /\ pc' = "preamble"
    /\ UNCHANGED <<files, lru_cache, model_in, file_type, rendercv_model, header,
                   code, sidebar_sections_code, main_sections_code, idx, result,
                   called, relative_template_path>>
    /\ UNCHANGED <<markdown, collaborator_calls, history>>
    /\ UNCHANGED <<cwd, renders, threads>>

\* Lines 104-115.
RenderPreamble_any_format ==
    /\ pc = "preamble"
    /\ LET r == render_single_template(files, lru_cache, file_type,
                     PreamblePath(file_type), rendercv_model, NoKw)
       IN  /\ lru_cache' = r.cache
           /\ IF r.ok
              THEN /\ code' = r.out \o Str("\n\n") \o header \o Str("\n")
                   /\ pc' = IF two_column THEN "sidebar_sections"
                                           ELSE "sections"
                   /\ idx' = 1
                   /\ UNCHANGED result
              ELSE /\ Raise("TemplateNotFound", r.missing)
                   /\ UNCHANGED <<code, idx>>
    /\ UNCHANGED <<files, model_in, file_type, rendercv_model, header,
                   sidebar_section_names, main_section_names,
                   sidebar_sections_code, main_sections_code, called,
                   relative_template_path>>
    /\ UNCHANGED <<markdown, collaborator_calls, history>>
    /\ UNCHANGED <<cwd, renders, threads>>

RenderPreamble ==
    /\ pc = "preamble"
    /\ IF file_type = "typst"
       THEN LET r == render_single_template(files, lru_cache, file_type,
                             PreamblePath(file_type), rendercv_model, NoKw)
            IN  /\ lru_cache' = r.cache
                /\ IF r.ok
                   THEN /\ code' = r.out \o Str("\n\n") \o header \o Str("\n")
                        /\ pc' = IF two_column THEN "sidebar_sections"
                                                ELSE "sections"
                        /\ idx' = 1
                        /\ UNCHANGED result
                   ELSE /\ Raise("TemplateNotFound", r.missing)
                        /\ UNCHANGED <<code, idx>>
       ELSE /\ code' = header \o Str("\n")
            /\ pc' = IF two_column THEN "sidebar_sections" ELSE "sections"
            /\ idx' = 1
            /\ UNCHANGED <<lru_cache, result>>
    /\ UNCHANGED <<files, model_in, file_type, rendercv_model, header,
                   sidebar_section_names, main_section_names,
                   sidebar_sections_code, main_sections_code, called,
                   relative_template_path>>
    /\ UNCHANGED <<markdown, collaborator_calls, history>>
    /\ UNCHANGED <<cwd, renders, threads>>

\* Lines 119-150: one turn of the section loop of the two-column layout.
SidebarSection ==
    /\ pc = "sidebar_sections"
    /\ idx <= Len(rendercv_model.cv.rendercv_sections)
    /\ LET rendercv_section == rendercv_model.cv.rendercv_sections[idx]
           r == section_code(files, lru_cache, file_type, rendercv_model,
                             rendercv_section)
       IN  /\ lru_cache' = r.cache
           /\ IF r.ok
              THEN /\ IF rendercv_section.snake_case_title
                            \in Range(sidebar_section_names)
                      THEN /\ sidebar_sections_code' =
                                  Append(sidebar_sections_code, r.out)
                           /\ UNCHANGED main_sections_code
                      ELSE /\ main_sections_code' =
                                  Append(main_sections_code, r.out)
                           /\ UNCHANGED sidebar_sections_code
                   /\ idx' = idx + 1
                   /\ UNCHANGED <<pc, result>>
              ELSE /\ Raise("TemplateNotFound", r.missing)
                   /\ UNCHANGED <<sidebar_sections_code, main_sections_code, idx>>
    /\ UNCHANGED <<files, model_in, file_type, rendercv_model, header,
                   sidebar_section_names, main_section_names, code, called,
                   relative_template_path>>
    /\ UNCHANGED <<markdown, collaborator_calls, history>>
    /\ UNCHANGED <<cwd, renders, threads>>

\* Lines 152-187: the grid, after the last section.
EmitGrid ==
    /\ pc = "sidebar_sections"
    /\ idx > Len(rendercv_model.cv.rendercv_sections)
    /\ LET sidebar_content == Join(Str("\n\n"), sidebar_sections_code)
           main_content == Join(Str("\n\n"), main_sections_code)
           sidebar == rendercv_model.design.sidebar
       IN  IF ~rendercv_model.design.has_sidebar
           THEN /\ Raise("AttributeError", <<>>)
                /\ UNCHANGED code
           ELSE /\ code' =
                     IF sidebar.position = "left"
                     THEN code \o grid(sidebar.width, "1fr", sidebar.gutter,
                                       sidebar_content, main_content)
                     ELSE code \o grid("1fr", sidebar.width, sidebar.gutter,
                                       main_content, sidebar_content)
                /\ pc' = "return"
                /\ UNCHANGED result
    /\ UNCHANGED <<files, lru_cache, model_in, file_type, rendercv_model, header,
                   sidebar_section_names, main_section_names,
                   sidebar_sections_code, main_sections_code, idx, called,
                   relative_template_path>>
    /\ UNCHANGED <<markdown, collaborator_calls, history>>
    /\ UNCHANGED <<cwd, renders, threads>>

\* Lines 190-216: one turn of the section loop of the single-column layout.
SingleSection ==
    /\ pc = "sections"
    /\ idx <= Len(rendercv_model.cv.rendercv_sections)
    /\ LET rendercv_section == rendercv_model.cv.rendercv_sections[idx]
           r == section_code(files, lru_cache, file_type, rendercv_model,
                             rendercv_section)
       IN  /\ lru_cache' = r.cache
           /\ IF r.ok
              THEN /\ code' = append_section(code, r.out)
                   /\ idx' = idx + 1
                   /\ UNCHANGED <<pc, result>>
              ELSE /\ Raise("TemplateNotFound", r.missing)
                   /\ UNCHANGED <<code, idx>>
    /\ UNCHANGED <<files, model_in, file_type, rendercv_model, header,
                   sidebar_section_names, main_section_names,
                   sidebar_sections_code, main_sections_code, called,
                   relative_template_path>>
    /\ UNCHANGED <<markdown, collaborator_calls, history>>
    /\ UNCHANGED <<cwd, renders, threads>>

\* Line 218.
Return ==
    /\ \/ pc = "return"
       \/ pc = "sections" /\ idx > Len(rendercv_model.cv.rendercv_sections)
    /\ result' = Returned(code)
    /\ pc' = "done"
    /\ UNCHANGED <<files, lru_cache, model_in, file_type, rendercv_model, header,
                   sidebar_section_names, main_section_names, code,
                   sidebar_sections_code, main_sections_code, idx, called,
                   relative_template_path>>
    /\ UNCHANGED <<markdown, collaborator_calls, history>>
    /\ UNCHANGED <<cwd, renders, threads>>

\* A direct call of render_single_template (lines 285-305).
RenderSingle ==
    /\ pc = "single"
    /\ LET r == render_single_template(files, lru_cache, file_type,
                                       relative_template_path, model_in, NoKw)
       IN  /\ lru_cache' = r.cache
           /\ result' = IF r.ok THEN Returned(r.out)
                                ELSE Raised("TemplateNotFound", r.missing, <<>>)
    /\ pc' = "done"
    /\ UNCHANGED <<files, model_in, file_type, rendercv_model, header,
                   sidebar_section_names, main_section_names, code,
                   sidebar_sections_code, main_sections_code, idx, called,
                   relative_template_path>>
    /\ UNCHANGED <<markdown, collaborator_calls, history>>
    /\ UNCHANGED <<cwd, renders, threads>>

\* render_html (lines 243-246): the conversion, then the one template.
RenderHtml_unconverted ==
    /\ pc = "html"
    /\ LET html_body == markdown
           r == render_single_template(files, lru_cache, "html", <<"Full.html">>,
                    model_in, [NoKw EXCEPT !.html_body = html_body])
       IN  /\ lru_cache' = r.cache
           /\ result' = IF r.ok THEN Returned(r.out)
                                ELSE Raised("TemplateNotFound", r.missing, <<>>)
    /\ collaborator_calls' = Append(collaborator_calls, <<"markdown_to_html">>)
    /\ pc' = "done"
    /\ UNCHANGED <<files, model_in, file_type, rendercv_model, header,
                   sidebar_section_names, main_section_names, code,
                   sidebar_sections_code, main_sections_code, idx, called,
                   relative_template_path>>
    /\ UNCHANGED <<markdown, history>>
    /\ UNCHANGED <<cwd, renders, threads>>

RenderHtml ==
    /\ pc = "html"
    /\ LET html_body == markdown_to_html(markdown)
           r == render_single_template(files, lru_cache, "html", <<"Full.html">>,
                    model_in, [NoKw EXCEPT !.html_body = html_body])
       IN  /\ lru_cache' = r.cache
           /\ result' = IF r.ok THEN Returned(r.out)
                                ELSE Raised("TemplateNotFound", r.missing, <<>>)
    /\ collaborator_calls' = Append(collaborator_calls, <<"markdown_to_html">>)
    /\ pc' = "done"
    /\ UNCHANGED <<files, model_in, file_type, rendercv_model, header,
                   sidebar_section_names, main_section_names, code,
                   sidebar_sections_code, main_sections_code, idx, called,
                   relative_template_path>>
    /\ UNCHANGED <<markdown, history>>
    /\ UNCHANGED <<cwd, renders, threads>>

Next ==
    \/ Start
    \/ RenderHeader
    \/ Partition
    \/ RenderPreamble
    \/ SidebarSection
    \/ EmitGrid
    \/ SingleSection
    \/ Return
    \/ RenderSingle
    \/ RenderHtml

Spec == Init /\ [][Next]_vars

\* The caller calls the same function again with the same arguments: the
\* locals of the finished call are gone, the process-wide cache of
\* get_jinja2_environment (line 17) and the files on disk stay.
CallAgain ==
    /\ pc = "done"
    /\ Len(history) < MaxCalls - 1
    /\ history' = Append(history, result)
    /\ rendercv_model' = model_in
    /\ header' = <<>>
    /\ sidebar_section_names' = <<>>
    /\ main_section_names' = <<>>
    /\ code' = <<>>
    /\ sidebar_sections_code' = <<>>
    /\ main_sections_code' = <<>>
    /\ idx' = 0
    /\ result' = NoResult
    /\ collaborator_calls' = <<>>
    /\ pc' = CASE called = "render_full_template" -> "start"
                [] called = "render_single_template" -> "single"
                [] OTHER -> "html"
    /\ UNCHANGED <<files, lru_cache, model_in, file_type, called,
                   relative_template_path, markdown>>
    /\ UNCHANGED <<cwd, renders, threads>>

NextRepeat == Next \/ CallAgain

SpecRepeat == Init /\ [][NextRepeat]_vars

----------------------------------------------------------------------------
\* Renders of different input files, one after the other, in one process

\* Bound of the renders of one process.
MaxRenders == 3

\* The input files: none, two files of one directory, a file of another.
SessionPaths ==
    {NoPath, "project/cv.yaml", "project/other.yaml", "elsewhere/cv.yaml"}

\* The directories the process can make its working directory.
WorkingDirectories == {Cwd, "elsewhere"}

SessionTemplate == FormatProbe("markdown", HeaderPath("markdown"))

\* The template is built in, and a user may have put a copy of it next to
\* the input files or into a working directory.
SessionFiles ==
    {{[root |-> templates_directory, name |-> SessionTemplate]} \cup overrides :
        overrides \in SUBSET [root : {"project", "elsewhere", Cwd},
                               name : {SessionTemplate}]}

\* A process about to render the header of its first input file.
InitSession ==
    /\ called = "render_single_template"
    /\ file_type = "markdown"
    /\ relative_template_path = HeaderPath("markdown")
    /\ files \in SessionFiles
    /\ model_in \in {m \in RenderCVModels :
                        /\ m.cv = NoSections
                        /\ m.design.theme = "classic"}
    /\ markdown = <<>>
    /\ pc = "single"
    /\ InitLocals

\* os.chdir between two renders.
ChangeDirectory ==
    /\ pc = "single"
    /\ cwd' \in WorkingDirectories \ {cwd}
    /\ UNCHANGED <<files, lru_cache, model_in, file_type, rendercv_model,
                   header, sidebar_section_names, main_section_names, code,
                   sidebar_sections_code, main_sections_code, idx, pc, called,
                   relative_template_path, result, markdown,
                   collaborator_calls, history, renders, threads>>

\* The finished render is over; the next one is of a model read from a
\* possibly different input file.  The cache of line 17 stays.
NextRender ==
    /\ pc = "done"
    /\ Len(renders) < MaxRenders - 1
    /\ renders' = Append(renders,
                     [input_file_path |-> model_in.input_file_path,
                      cwd |-> cwd, env |-> lru_cache[1], result |-> result])
    /\ \E path \in SessionPaths :
           /\ model_in' = [model_in EXCEPT !.input_file_path = path]
           /\ rendercv_model' = [model_in EXCEPT !.input_file_path = path]
    /\ result' = NoResult
    /\ pc' = "single"
    /\ UNCHANGED <<files, lru_cache, file_type, header, sidebar_section_names,
                   main_section_names, code, sidebar_sections_code,
                   main_sections_code, idx, called, relative_template_path,
                   markdown, collaborator_calls, history, cwd, threads>>

NextSession ==
    \/ RenderSingle
    \/ ChangeDirectory
    \/ NextRender

SpecSession == InitSession /\ [][NextSession]_vars

----------------------------------------------------------------------------
\* Two threads that call render_single_template at the same time

\* Two threads about to resolve the same template for the same model, in a
\* process that has not built an environment yet.
InitThreads ==
    /\ called = "render_single_template"
    /\ file_type = "markdown"
    /\ relative_template_path = HeaderPath("markdown")
    /\ files \in SessionFiles
    /\ model_in \in {m \in RenderCVModels :
                        /\ m.cv = NoSections
                        /\ m.design.theme = "classic"}
    /\ markdown = <<>>
    /\ pc = "threads"
    /\ InitProcess
    /\ threads = [t \in Threads |-> [IdleThread EXCEPT !.pc = "lookup"]]

\* The identity of the environment built last by any thread.
LastSerial ==
    CHOOSE n \in {threads[t].env.serial : t \in Threads} \cup {Built(lru_cache)} :
        \A t \in Threads : threads[t].env.serial <= n /\ Built(lru_cache) <= n

UnchangedByThreads ==
    UNCHANGED <<files, model_in, file_type, rendercv_model, header,
                sidebar_section_names, main_section_names, code,
                sidebar_sections_code, main_sections_code, idx, pc, called,
                relative_template_path, result, markdown, collaborator_calls,
                history, cwd, renders>>

\* The wrapper of functools.lru_cache (line 17) looks the key up: a hit
\* returns the cached environment, a miss goes on to call the body.
ThreadLookup(t) ==
    /\ pc = "threads"
    /\ threads[t].pc = "lookup"
    /\ IF CacheHit(lru_cache, model_in.input_file_path)
       THEN threads' = [threads EXCEPT ![t].pc = "resolve",
                                       ![t].env = lru_cache[1]]
       ELSE threads' = [threads EXCEPT ![t].pc = "construct",
                                       ![t].missed = TRUE]
    /\ UNCHANGED lru_cache
    /\ UnchangedByThreads

\* The body (lines 34-48) builds an environment; no lock is held, other
\* threads run before and after it.
ThreadConstruct(t) ==
    /\ pc = "threads"
    /\ threads[t].pc = "construct"
    /\ threads' =
          [threads EXCEPT
              ![t].pc = "store",
              ![t].env = [Environment(lru_cache, model_in.input_file_path)
                              EXCEPT !.serial = LastSerial + 1]]
    /\ UNCHANGED lru_cache
    /\ UnchangedByThreads

\* The wrapper stores the result unless the key was stored while the body
\* ran, and returns the result of its own call of the body.
ThreadStore_adopting_cached(t) ==
    /\ pc = "threads"
    /\ threads[t].pc = "store"
    /\ IF CacheHit(lru_cache, model_in.input_file_path)
       THEN /\ threads' = [threads EXCEPT ![t].pc = "resolve",
                                          ![t].env = lru_cache[1]]
            /\ UNCHANGED lru_cache
       ELSE /\ threads' = [threads EXCEPT ![t].pc = "resolve"]
            /\ lru_cache' = <<threads[t].env>>
    /\ UnchangedByThreads

ThreadStore(t) ==
    /\ pc = "threads"
    /\ threads[t].pc = "store"
    /\ threads' = [threads EXCEPT ![t].pc = "resolve"]
    /\ lru_cache' = IF CacheHit(lru_cache, model_in.input_file_path)
                    THEN lru_cache
                    ELSE <<threads[t].env>>
    /\ UnchangedByThreads

\* Lines 294-297: the thread resolves the template with its environment.
ThreadResolve(t) ==
    /\ pc = "threads"
    /\ threads[t].pc = "resolve"
    /\ threads' =
          [threads EXCEPT
              ![t].pc = "done",
              ![t].template =
                  get_template(files, threads[t].env,
                               FormatProbe(file_type, relative_template_path))]
    /\ UNCHANGED lru_cache
    /\ UnchangedByThreads

NextThreads ==
    \E t \in Threads :
        \/ ThreadLookup(t)
        \/ ThreadConstruct(t)
        \/ ThreadStore(t)
        \/ ThreadResolve(t)

SpecThreads == InitThreads /\ [][NextThreads]_vars

----------------------------------------------------------------------------
\* Reading a rendered document

FullCall == called = "render_full_template"
SingleCall == called = "render_single_template"

Sections == model_in.cv.rendercv_sections

\* The relative path of the template a piece was rendered from.
RelativePath(piece) == SubSeq(piece.file.name, 3, Len(piece.file.name))

FromTemplate(piece, rel) == IsRendered(piece) /\ RelativePath(piece) = rel

IsBeginning(piece) == FromTemplate(piece, SectionBeginningPath(file_type))
IsEnding(piece) == FromTemplate(piece, SectionEndingPath(file_type))
IsEntry(piece) == IsRendered(piece) /\ piece.kw.entry # ""

Count(str, Test(_)) == Len(SelectSeq(str, Test))

\* The snake_case titles of the section beginnings of a string, in order.
BeginningTitles(str) ==
    LET b == SelectSeq(str, IsBeginning)
    IN  [i \in 1..Len(b) |-> b[i].kw.snake_case_section_title]

ModelTitles(sections) ==
    [i \in 1..Len(sections) |-> sections[i].snake_case_title]

\* The entries rendered inside the block that begins with the beginning of
\* the section of the given title, in order.
EntriesOf(str, title) ==
    LET b == CHOOSE i \in 1..Len(str) :
                 IsBeginning(str[i]) /\ str[i].kw.snake_case_section_title = title
        e == CHOOSE i \in (b + 1)..Len(str) :
                 IsEnding(str[i]) /\ \A j \in (b + 1)..(i - 1) : ~IsEnding(str[j])
        inside == SelectSeq(SubSeq(str, b + 1, e - 1), IsEntry)
    IN  [i \in 1..Len(inside) |-> inside[i].kw.entry]

GridOpening == "\n#grid(\n  columns: ("

HasGrid(str) == \E i \in 1..Len(str) : str[i].lit = GridOpening

SidebarAndTypst == model_in.design.theme = "sidebar" /\ file_type = "typst"

FullReturned == FullCall /\ result.status = "returned"

\* The directory searched before the built-in one for the model's input file.
OverrideRoot == IF model_in.input_file_path = NoPath THEN cwd
                ELSE Parent(model_in.input_file_path)

Resolves(name) ==
    \E root \in {OverrideRoot, templates_directory} :
        [root |-> root, name |-> name] \in files

----------------------------------------------------------------------------
\* C1: a returned document holds the grid only when the theme is sidebar and
\* the format is typst; in every other case no grid is in it and the sections
\* were appended to the document directly, none through a column stream.
C1_FormatGating ==
    FullReturned =>
        /\ HasGrid(result.value) => SidebarAndTypst
        /\ ~SidebarAndTypst =>
              /\ ~HasGrid(result.value)
              /\ sidebar_sections_code = <<>>
              /\ main_sections_code = <<>>
              /\ Count(result.value, IsBeginning) = Len(Sections)

C1_Witness ==
    /\ FullReturned
    /\ model_in.design.theme = "sidebar"
    /\ model_in.design.has_sidebar
    /\ file_type = "markdown"
    /\ Len(Sections) = 2
    /\ ~HasGrid(result.value)

\* C2: in the two-column layout with a sidebar configuration, the sections
\* handled so far are split between the two streams: a section is in the
\* sidebar stream exactly when its snake_case_title is in sidebar.sections,
\* the two streams together hold as many blocks as sections were handled, and
\* each stream keeps the order of the model.
C2_PartitionComplete ==
    (FullCall /\ SidebarAndTypst /\ model_in.design.has_sidebar /\ idx >= 1) =>
        LET handled == ModelTitles(SubSeq(Sections, 1, idx - 1))
            config == Range(model_in.design.sidebar.sections)
            InConfig(t) == t \in config
            NotInConfig(t) == t \notin config
            sidebar_stream == Join(<<>>, sidebar_sections_code)
            main_stream == Join(<<>>, main_sections_code)
        IN  /\ BeginningTitles(sidebar_stream) = SelectSeq(handled, InConfig)
            /\ BeginningTitles(main_stream) = SelectSeq(handled, NotInConfig)
            /\ Len(sidebar_sections_code) + Len(main_sections_code) = idx - 1
            /\ pc \in {"return", "done"} /\ result.status # "raised"
                   => idx - 1 = Len(Sections)

C2_Witness ==
    /\ FullCall /\ SidebarAndTypst /\ pc = "return"
    /\ Len(sidebar_sections_code) = 1
    /\ Len(main_sections_code) = 1
    /\ Sections[1].snake_case_title \in Range(model_in.design.sidebar.sections)

\* C3: with the sidebar theme, no sidebar configuration and every template in
\* place, a typst render returns a single-column document.
C3_MissingSidebarFallsBack ==
    (/\ FullCall /\ pc = "done"
     /\ SidebarAndTypst /\ ~model_in.design.has_sidebar
     /\ files = AllBuiltInFiles)
        => result.status = "returned" /\ ~HasGrid(result.value)

\* C4: a document returned in the single-column layout holds the section
\* blocks in the order of the model, each section once.
C4_SectionOrder ==
    (FullReturned /\ ~SidebarAndTypst) =>
        /\ BeginningTitles(result.value) = ModelTitles(Sections)
        /\ Count(result.value, IsEnding) = Len(Sections)
        /\ \A i \in 1..Len(result.value) :
               IsEnding(result.value[i]) =>
                   \E j \in 1..(i - 1) :
                       /\ IsBeginning(result.value[j])
                       /\ Count(SubSeq(result.value, 1, i), IsEnding)
                              = Count(SubSeq(result.value, 1, j), IsBeginning)
                       /\ result.value[j].kw.entry_type
                              = result.value[i].kw.entry_type

C4_Witness ==
    /\ FullReturned /\ ~SidebarAndTypst
    /\ Len(Sections) = 2
    /\ BeginningTitles(result.value) = <<"skills", "experience">>

\* C5: in a returned document of either layout, the entries rendered inside
\* the block of a section are the entries of the section, in their order, one
\* rendered entry for each.
C5_EntryOrder ==
    FullReturned =>
        \A i \in 1..Len(Sections) :
            EntriesOf(result.value, Sections[i].snake_case_title)
                = Sections[i].entries

C5_Witness ==
    /\ FullReturned /\ SidebarAndTypst
    /\ Len(Sections) = 2
    /\ Sections[2].entries = <<"e2", "e1">>

----------------------------------------------------------------------------
\* A direct call of render_single_template

SingleDone == SingleCall /\ pc = "done"

ThemeName == <<model_in.design.theme, "/">> \o relative_template_path
FormatName == <<file_type, "/">> \o relative_template_path

\* The file the returned string was rendered from.
UsedFile == result.value[1].file

\* C6: for typst the template named "{theme}/{relative_path}" is used when
\* that name resolves in a search root, and "typst/{relative_path}" only when
\* it does not; for markdown and html the template used is
\* "{format}/{relative_path}", never the one under the theme's name.
C6_LookupOrder ==
    SingleDone =>
        IF file_type = "typst"
        THEN /\ Resolves(ThemeName) =>
                   result.status = "returned" /\ UsedFile.name = ThemeName
             /\ (~Resolves(ThemeName) /\ result.status = "returned") =>
                   UsedFile.name = FormatName
        ELSE result.status = "returned" =>
                 UsedFile.name = FormatName /\ UsedFile.name # ThemeName

C6_Witness ==
    /\ SingleDone /\ file_type = "typst"
    /\ Resolves(ThemeName) /\ Resolves(FormatName)
    /\ result.status = "returned" /\ UsedFile.name = ThemeName

\* C7: the file a template is rendered from lies in the built-in templates
\* directory only when the override directory of the input file has no file
\* of that name; when it has one, that file is used.
C7_SearchRootOrder ==
    (pc = "done" /\ result.status = "returned") =>
        \A i \in 1..Len(result.value) :
            IsRendered(result.value[i]) =>
                LET used == result.value[i].file
                    override == [root |-> OverrideRoot, name |-> used.name]
                IN  /\ used \in files
                    /\ used.root \in {OverrideRoot, templates_directory}
                    /\ override \in files => used = override

C7_Witness ==
    /\ SingleDone /\ result.status = "returned"
    /\ UsedFile.root = OverrideRoot
    /\ [root |-> templates_directory, name |-> UsedFile.name] \in files

\* C8: render_single_template raises the template-not-found error exactly
\* when none of its probes resolves in a search root: the theme's name and
\* the format's name for typst, the format's name alone otherwise.
C8_NotFoundExactly ==
    SingleDone =>
        LET some_probe_resolves ==
                \/ file_type = "typst" /\ Resolves(ThemeName)
                \/ Resolves(FormatName)
        IN  /\ result.status = "raised" <=> ~some_probe_resolves
            /\ result.status = "raised" => result.exc = "TemplateNotFound"
            /\ result.status = "returned" <=> some_probe_resolves

C8_Witness ==
    /\ SingleDone /\ file_type = "typst"
    /\ ~Resolves(ThemeName) /\ Resolves(FormatName)
    /\ result.status = "returned"

----------------------------------------------------------------------------
\* Failures of render_full_template

IsHeader(piece) == FromTemplate(piece, HeaderPath(file_type))
IsPreamble(piece) == FromTemplate(piece, PreamblePath(file_type))

\* The header, the preamble of typst and every part of every section.
Complete(str) ==
    /\ Count(str, IsHeader) = 1
    /\ Count(str, IsPreamble) = IF file_type = "typst" THEN 1 ELSE 0
    /\ Range(BeginningTitles(str)) = Range(ModelTitles(Sections))
    /\ Count(str, IsBeginning) = Len(Sections)
    /\ Count(str, IsEnding) = Len(Sections)
    /\ Count(str, IsEntry) = EntryTotal(Sections)

\* C9: a finished render_full_template call has either returned the complete
\* document or raised, and a call that raised gave no string to its caller.
C9_AllOrNothing ==
    (FullCall /\ pc = "done") =>
        \/ result.status = "returned" /\ Complete(result.value)
        \/ result.status = "raised" /\ result.value = <<>>

\* A section failed after the header block and a first section were assembled.
C9_Witness ==
    /\ FullCall /\ pc = "done"
    /\ result.status = "raised" /\ result.exc = "TemplateNotFound"
    /\ idx = 2 /\ code # <<>>
    /\ result.value = <<>>

\* A section the model holds whose entry template is in no search root.
UnknownTypeSections ==
    {i \in 1..Len(Sections) :
        /\ ~Resolves(FormatProbe(file_type, EntryPath(file_type, Sections[i].entry_type)))
        /\ ~Resolves(<<model_in.design.theme, "/">>
                        \o EntryPath(file_type, Sections[i].entry_type))}

FullDone == FullCall /\ pc = "done" /\ file_type \in Extensions

\* C10 as stated: a render of a model with a section of an unknown entry_type
\* fails with the template-not-found error, whatever the number of entries.
C10_UnknownEntryTypeFails ==
    (FullDone /\ UnknownTypeSections # {}) =>
        result.status = "raised" /\ result.exc = "TemplateNotFound"

\* C10, amended: a typst or markdown render of a model with a section of an
\* unknown entry_type that holds at least one entry fails with the
\* template-not-found error, in both layouts.
C10_UnknownEntryTypeWithEntriesFails ==
    (FullDone /\ \E i \in UnknownTypeSections : Len(Sections[i].entries) >= 1) =>
        result.status = "raised" /\ result.exc = "TemplateNotFound"

C10_Witness ==
    /\ FullDone /\ SidebarAndTypst
    /\ \E i \in UnknownTypeSections : Len(Sections[i].entries) >= 1
    /\ result.status = "raised"
    /\ result.missing = FormatProbe(file_type, EntryPath(file_type, "OneLineEntry"))
    /\ idx = 2

----------------------------------------------------------------------------
\* C11: a second call of render_full_template with the same model and format,
\* made right after the first, returns the same string as the first; the
\* environment the first call left in the cache does not change it.
C11_Idempotent ==
    (FullCall /\ pc = "done" /\ history # <<>>
        /\ history[Len(history)].status = "returned")
    => result = history[Len(history)]

\* A second call that found the environment of the first in the cache and
\* returned a document with sections.
C11_Witness ==
    /\ FullCall /\ pc = "done" /\ history # <<>>
    /\ result.status = "returned"
    /\ lru_cache # <<>>
    /\ Len(Sections) > 1
    /\ SidebarAndTypst

----------------------------------------------------------------------------
\* C12: no step of render_full_template, render_single_template or
\* render_html writes to the model: the caller's model is never changed, and
\* the model that process_model returned at the start (line 82) is the same
\* in every later step, also in the step that fails.
C12_ReadOnlyModel ==
    [][ /\ model_in' = model_in
        /\ (pc # "start" => rendercv_model' = rendercv_model) ]_vars

\* A render of a sidebar model that failed after the partition, with the
\* caller's model and the processed model as they were.
C12_Witness ==
    /\ FullCall /\ pc = "done" /\ SidebarAndTypst
    /\ result.status = "raised"
    /\ result.exc = "TemplateNotFound"
    /\ header # <<>>
    /\ model_in.design.sidebar.sections # <<>>
    /\ Len(Sections) > 0
    /\ rendercv_model = process_model(model_in, file_type)

----------------------------------------------------------------------------
\* A call of render_full_template or render_html that returned a string.
RenderReturned ==
    /\ called \in {"render_full_template", "render_html"}
    /\ pc = "done"
    /\ result.status = "returned"

\* C13, as stated: after render_full_template or render_html returns, no
\* process-wide state differs from the state before the call, which had an
\* empty environment cache.
C13_NoStateSurvives == RenderReturned => lru_cache = <<>>

\* C13, amended: the one process-wide state that differs after the call is
\* the cache of get_jinja2_environment, which holds exactly the environment
\* built for the model's input file path; the template files are never
\* changed.
C13_OnlyEnvironmentSurvives ==
    [][ /\ files' = files
        /\ RenderReturned' =>
              lru_cache' = <<NewEnvironment(model_in.input_file_path)>> ]_vars

\* render_html returned for a model without an input file, and the
\* environment of the working directory stays in the cache.
C13_Witness ==
    /\ called = "render_html"
    /\ pc = "done"
    /\ result.status = "returned"
    /\ model_in.input_file_path = NoPath
    /\ lru_cache = <<NewEnvironment(NoPath)>>

----------------------------------------------------------------------------
\* A two-column render that returned a document.
TwoColumnReturned == FullReturned /\ SidebarAndTypst

\* The two streams of a finished two-column render, joined as the cells.
SidebarCell == Join(Str("\n\n"), sidebar_sections_code)
MainCell == Join(Str("\n\n"), main_sections_code)

\* The grid the claim describes, piece by piece.
ClaimedGrid ==
    LET sidebar == model_in.design.sidebar
        columns == IF sidebar.position = "left"
                   THEN <<Lit(sidebar.width), Lit(", "), Lit("1fr")>>
                   ELSE <<Lit("1fr"), Lit(", "), Lit(sidebar.width)>>
        first == IF sidebar.position = "left" THEN SidebarCell ELSE MainCell
        second == IF sidebar.position = "left" THEN MainCell ELSE SidebarCell
    IN  <<Lit(GridOpening)>> \o columns
            \o <<Lit("),\n  gutter: "), Lit(sidebar.gutter), Lit(",\n  [\n")>>
            \o first \o <<Lit("\n  ],\n  [\n")>> \o second
            \o <<Lit("\n  ]\n)\n")>>

IsGridOpening(piece) == piece.lit = GridOpening

\* C14: in a two-column document the grid has the columns (sidebar.width,
\* 1fr) with the sidebar stream in the first cell when the position is left,
\* and (1fr, sidebar.width) with the main stream first when it is right; the
\* gutter is sidebar.gutter; the grid comes exactly once, right after the
\* preamble and the header, and ends the document.
C14_GridArrangement ==
    TwoColumnReturned =>
        /\ Count(result.value, IsGridOpening) = 1
        /\ Len(result.value) > 4
        /\ IsPreamble(result.value[1])
        /\ IsHeader(result.value[3])
        /\ SubSeq(result.value, 5, Len(result.value)) = ClaimedGrid

\* A two-column document with the sidebar on the right and a section in
\* each stream.
C14_Witness ==
    /\ TwoColumnReturned
    /\ model_in.design.sidebar.position = "right"
    /\ sidebar_sections_code # <<>>
    /\ main_sections_code # <<>>

----------------------------------------------------------------------------
\* A finished typst render of a sidebar design whose sidebar.sections is the
\* empty list.
EmptySidebarList ==
    /\ FullCall /\ pc = "done" /\ SidebarAndTypst
    /\ model_in.design.has_sidebar
    /\ model_in.design.sidebar.sections = <<>>

\* The pieces that open the first cell, separate the cells and close the
\* second cell.
CellOpening == Lit(",\n  [\n")
CellBreak == Lit("\n  ],\n  [\n")
CellClosing == Lit("\n  ]\n)\n")

\* Piece a is directly followed by piece b somewhere in the string.
Adjacent(str, a, b) ==
    \E i \in 1..(Len(str) - 1) : str[i] = a /\ str[i + 1] = b

IsCellBreak(piece) == piece = CellBreak

\* C15: with an empty sidebar.sections the two-column render does not fail
\* for that reason (only a missing template stops it); every section goes to
\* the main stream in model order, the sidebar cell is empty, and the grid is
\* still there with its two cells.
C15_EmptySidebarList ==
    EmptySidebarList =>
        /\ result.status = "raised" =>
               (result.exc = "TemplateNotFound" /\ files # AllBuiltInFiles)
        /\ result.status = "returned" =>
               /\ sidebar_sections_code = <<>>
               /\ BeginningTitles(MainCell) = ModelTitles(Sections)
               /\ Count(result.value, IsGridOpening) = 1
               /\ Count(result.value, IsCellBreak) = 1
               /\ IF model_in.design.sidebar.position = "left"
                  THEN Adjacent(result.value, CellOpening, CellBreak)
                  ELSE Adjacent(result.value, CellBreak, CellClosing)

\* A returned two-column document of a model with sections and an empty
\* sidebar list.
C15_Witness ==
    /\ EmptySidebarList
    /\ result.status = "returned"
    /\ Len(Sections) > 1
    /\ model_in.design.sidebar.position = "left"

----------------------------------------------------------------------------
\* The number of pieces of the block of a section: beginning, newline, the
\* entries with a separator between two of them, newline, ending.
BlockLen(section) ==
    LET n == Len(section.entries)
    IN  IF n = 0 THEN 4 ELSE 2 * n + 3

\* The string is the block of the section: the beginning rendered for the
\* section, "\n", its entries in order joined by "\n\n", "\n", the ending.
BlockShape(block, section) ==
    LET n == Len(section.entries)
    IN  /\ Len(block) = BlockLen(section)
        /\ IsBeginning(block[1])
        /\ block[1].kw.snake_case_section_title = section.snake_case_title
        /\ block[1].kw.section_title = section.title
        /\ block[2] = Lit("\n")
        /\ \A k \in 1..n :
               /\ FromTemplate(block[2 * k + 1],
                               EntryPath(file_type, section.entry_type))
               /\ block[2 * k + 1].kw.entry = section.entries[k]
        /\ \A k \in 1..(n - 1) : block[2 * k + 2] = Lit("\n\n")
        /\ block[Len(block) - 1] = Lit("\n")
        /\ IsEnding(block[Len(block)])

\* The string is, for each of the sections in order, a newline and the block
\* of the section.
RECURSIVE BlocksAfterNewlines(_, _)
BlocksAfterNewlines(str, sections) ==
    IF sections = <<>> THEN str = <<>>
    ELSE LET l == BlockLen(Head(sections))
         IN  /\ Len(str) > l
             /\ str[1] = Lit("\n")
             /\ BlockShape(SubSeq(str, 2, l + 1), Head(sections))
             /\ BlocksAfterNewlines(SubSeq(str, l + 2, Len(str)),
                                    Tail(sections))

InSidebar(section) ==
    section.snake_case_title \in Range(model_in.design.sidebar.sections)

NotInSidebar(section) == ~InSidebar(section)

\* The number of pieces of the header block: preamble, "\n\n", header, "\n"
\* for typst; header, "\n" for markdown.
HeaderBlockLen == IF file_type = "typst" THEN 4 ELSE 2

\* C16: in both layouts every section block of a returned document is the
\* beginning, "\n", the entries joined by "\n\n", "\n", the ending; a section
\* with zero entries gives the beginning, two newlines and the ending.
C16_SectionBlockShape ==
    FullReturned =>
        IF SidebarAndTypst
        THEN LET inside == SelectSeq(Sections, InSidebar)
                 outside == SelectSeq(Sections, NotInSidebar)
             IN  /\ Len(sidebar_sections_code) = Len(inside)
                 /\ Len(main_sections_code) = Len(outside)
                 /\ \A i \in 1..Len(inside) :
                        BlockShape(sidebar_sections_code[i], inside[i])
                 /\ \A i \in 1..Len(outside) :
                        BlockShape(main_sections_code[i], outside[i])
        ELSE BlocksAfterNewlines(
                 SubSeq(result.value, HeaderBlockLen + 1, Len(result.value)),
                 Sections)

\* A returned document with a section of zero entries and a section of two.
C16_Witness ==
    /\ FullReturned
    /\ \E i, j \in 1..Len(Sections) :
           /\ Len(Sections[i].entries) = 0
           /\ Len(Sections[j].entries) > 1

----------------------------------------------------------------------------
\* Every template output in the string was rendered with the given model.
ReadsModel(str, m) ==
    \A i \in 1..Len(str) : IsRendered(str[i]) => str[i].processed = m.processed

\* Every template output the call holds: in its locals and in its result.
AllRendered ==
    header \o code \o Join(<<>>, sidebar_sections_code)
        \o Join(<<>>, main_sections_code) \o result.value

\* C17: a render_full_template call of a format it accepts calls
\* process_model exactly once, with the requested format, before it resolves
\* or renders any template; every template rendered afterwards reads the
\* model that process_model returned.
C17_ProcessModelOnceFirst ==
    (FullCall /\ file_type \in Extensions) =>
        /\ pc = "start" =>
               /\ collaborator_calls = <<>>
               /\ lru_cache = <<>>
               /\ AllRendered = <<>>
        /\ pc # "start" =>
               /\ collaborator_calls = <<<<"process_model", file_type>>>>
               /\ rendercv_model = process_model(model_in, file_type)
               /\ ReadsModel(AllRendered, process_model(model_in, file_type))

\* A returned markdown document with sections and entries, after the one
\* process_model call.
C17_Witness ==
    /\ FullReturned
    /\ file_type = "markdown"
    /\ collaborator_calls = <<<<"process_model", "markdown">>>>
    /\ Count(result.value, IsEntry) > 0

----------------------------------------------------------------------------
\* The output of a Preamble template of any format.
IsAnyPreamble(piece) ==
    /\ IsRendered(piece)
    /\ \E ft \in Extensions : RelativePath(piece) = PreamblePath(ft)

\* C18: a returned document holds the output of Header exactly once; a typst
\* document also holds the output of Preamble exactly once and starts with
\* the preamble, "\n\n", the header, "\n"; a markdown document starts with the
\* header, "\n", holds no preamble, and a markdown render never looks a
\* Preamble template up, so it never fails for one.
C18_HeaderAndPreamble ==
    /\ FullReturned =>
          /\ Count(result.value, IsHeader) = 1
          /\ IF file_type = "typst"
             THEN /\ Count(result.value, IsAnyPreamble) = 1
                  /\ Len(result.value) >= 4
                  /\ IsPreamble(result.value[1])
                  /\ result.value[2] = Lit("\n\n")
                  /\ IsHeader(result.value[3])
                  /\ result.value[4] = Lit("\n")
             ELSE /\ Count(result.value, IsAnyPreamble) = 0
                  /\ Len(result.value) >= 2
                  /\ IsHeader(result.value[1])
                  /\ result.value[2] = Lit("\n")
    /\ (FullCall /\ file_type = "markdown" /\ result.status = "raised") =>
          result.missing # FormatProbe("markdown", PreamblePath("markdown"))

\* A returned typst document of the single-column layout with a section,
\* and so with pieces after the header block.
C18_Witness ==
    /\ FullReturned
    /\ file_type = "typst"
    /\ ~SidebarAndTypst
    /\ Len(result.value) > 4
    /\ IsPreamble(result.value[1])

----------------------------------------------------------------------------
HtmlDone == called = "render_html" /\ pc = "done"

FullHtml == <<"html", "/", "Full.html">>

\* C19: render_html converts the Markdown with markdown_to_html exactly once
\* and renders html/Full.html, from the first search root that holds it and
\* without a look at the theme's directory, with the caller's model and the
\* converted fragment as html_body, and nothing else; when no search root
\* holds html/Full.html it fails with template-not-found.
C19_HtmlFinalizer ==
    HtmlDone =>
        /\ collaborator_calls = <<<<"markdown_to_html">>>>
        /\ IF Resolves(FullHtml)
           THEN /\ result.status = "returned"
                /\ Len(result.value) = 1
                /\ UsedFile.name = FullHtml
                /\ UsedFile.root =
                       FirstRoot(files, <<OverrideRoot, templates_directory>>,
                                 FullHtml)
                /\ result.value[1].kw =
                       [NoKw EXCEPT !.html_body = markdown_to_html(markdown)]
                /\ result.value[1].processed = model_in.processed
           ELSE /\ result.status = "raised"
                /\ result.exc = "TemplateNotFound"
                /\ result.missing = FullHtml

\* render_html returned for a model of the sidebar theme whose own
\* Full.html exists next to html/Full.html, with a Markdown document that
\* has content.
C19_Witness ==
    /\ HtmlDone
    /\ result.status = "returned"
    /\ markdown # <<>>
    /\ model_in.design.theme = "sidebar"
    /\ [root |-> OverrideRoot, name |-> <<"sidebar", "/", "Full.html">>] \in files

----------------------------------------------------------------------------
\* A single-column render that returned a document.
SingleColumnReturned == FullReturned /\ ~SidebarAndTypst

\* The number of pieces of the single-column document of the sections.
RECURSIVE BodyLen(_)
BodyLen(sections) ==
    IF sections = <<>> THEN 0
    ELSE 1 + BlockLen(Head(sections)) + BodyLen(Tail(sections))

\* C20: a single-column document is exactly the header block followed, for
\* each section in model order, by a newline and the block of the section;
\* nothing comes before, between or after, and with zero sections the
\* document is the header block alone.
C20_SingleColumnComposition ==
    SingleColumnReturned =>
        LET body == SubSeq(result.value, HeaderBlockLen + 1, Len(result.value))
        IN  /\ Len(result.value) = HeaderBlockLen + BodyLen(Sections)
            /\ SubSeq(result.value, HeaderBlockLen - 1, HeaderBlockLen)
                   = header \o <<Lit("\n")>>
            /\ BeginningTitles(body) = ModelTitles(Sections)
            /\ BlocksAfterNewlines(body, Sections)
            /\ Sections = <<>> => result.value[Len(result.value)] = Lit("\n")
            /\ Sections # <<>> => IsEnding(result.value[Len(result.value)])

\* A single-column markdown document of a sidebar design with two sections
\* that hold entries.
C20_Witness ==
    /\ SingleColumnReturned
    /\ model_in.design.theme = "sidebar"
    /\ file_type = "markdown"
    /\ Len(Sections) > 1
    /\ Count(result.value, IsEntry) > 1

----------------------------------------------------------------------------
\* C21: over the render_single_template calls of one full render, and of
\* renders of the same model that follow it, the environment is constructed
\* at most once: the cache is empty or holds the environment of the first
\* construction, built for the input file path of the model, and no step
\* replaces it.
C21_ConstructedOnce ==
    [][ /\ Built(lru_cache') <= 1
        /\ lru_cache # <<>> => lru_cache' = lru_cache
        /\ lru_cache' # <<>> =>
              lru_cache' = <<NewEnvironment(model_in.input_file_path)>> ]_vars

\* The second full render of a model has returned a document with entries,
\* after several template resolutions, and one environment has been built.
C21_Witness ==
    /\ FullReturned
    /\ pc = "done"
    /\ history # <<>>
    /\ Count(result.value, IsEntry) > 1
    /\ Built(lru_cache) = 1

----------------------------------------------------------------------------
\* A render of the process that follows an earlier one has finished.
LaterRenderDone == SingleCall /\ pc = "done" /\ renders # <<>>

\* The render before the current one.
Previous == renders[Len(renders)]

\* The environment the current render resolved its template with.
CurrentEnvironment == lru_cache[1]

\* The current input file is another file of the directory of the previous
\* one.
OtherFileSameDirectory ==
    /\ model_in.input_file_path # NoPath
    /\ Previous.input_file_path # NoPath
    /\ model_in.input_file_path # Previous.input_file_path
    /\ Parent(model_in.input_file_path) = Parent(Previous.input_file_path)

\* C22, as stated: two renders in sequence whose input files are different
\* files of one directory use the same environment, constructed once.
C22_KeyedByDirectory ==
    (LaterRenderDone /\ OtherFileSameDirectory) =>
        CurrentEnvironment = Previous.env

\* C22, amended: the environment is memoized by the input file path; a
\* render of the same path as the render before it uses the same
\* environment, and a render of another path, also of a file of the same
\* directory, constructs a new one, which for the same directory has the
\* same search path.
C22_KeyedByInputPath ==
    LaterRenderDone =>
        /\ CurrentEnvironment.key = model_in.input_file_path
        /\ IF model_in.input_file_path = Previous.input_file_path
           THEN CurrentEnvironment = Previous.env
           ELSE CurrentEnvironment.serial = Previous.env.serial + 1
        /\ OtherFileSameDirectory =>
              CurrentEnvironment.searchpath = Previous.env.searchpath

\* Two renders of two files of one directory, and the second environment
\* of the process.
C22_Witness ==
    /\ LaterRenderDone
    /\ OtherFileSameDirectory
    /\ Len(renders) = 1
    /\ CurrentEnvironment.serial = Previous.env.serial + 1

----------------------------------------------------------------------------
\* C23, as stated: after any sequence of renders with any input file paths
\* and working directories, a render resolves its template in the override
\* directory of its own input file (the working directory of now when there
\* is no input file) before the built-in directory, never in a directory
\* memoized earlier.
C23_SearchesCurrentOverrideRoot ==
    (SingleCall /\ pc = "done" /\ lru_cache # <<>>) =>
        /\ CurrentEnvironment.searchpath = <<OverrideRoot, templates_directory>>
        /\ result.status = "returned" =>
              UsedFile.root =
                  FirstRoot(files, <<OverrideRoot, templates_directory>>,
                            UsedFile.name)

----------------------------------------------------------------------------
\* The input file paths of the renders of the process, the current one last.
RenderedPaths ==
    [i \in 1..Len(renders) |-> renders[i].input_file_path]
        \o <<model_in.input_file_path>>

\* The number of places of a sequence where an element differs from the one
\* before it.
RECURSIVE SwitchesIn(_)
SwitchesIn(paths) ==
    IF Len(paths) < 2 THEN 0
    ELSE (IF paths[1] # paths[2] THEN 1 ELSE 0) + SwitchesIn(Tail(paths))

\* C25: the cache never holds more than one environment, and when a render
\* has finished the number of environments constructed so far is the number
\* of switches of the input file path between consecutive renders plus one:
\* a path that comes back after another one is constructed again.
C25_OneEnvironmentAtATime ==
    /\ Len(lru_cache) <= 1
    /\ (SingleCall /\ pc = "done") =>
          Built(lru_cache) = SwitchesIn(RenderedPaths) + 1

\* Three renders that alternate between two input file paths, and three
\* constructions.
C25_Witness ==
    /\ LaterRenderDone
    /\ Len(renders) > 1
    /\ renders[1].input_file_path = model_in.input_file_path
    /\ renders[2].input_file_path # model_in.input_file_path
    /\ Len(RenderedPaths) = Built(lru_cache)

----------------------------------------------------------------------------
\* Both threads have their environment.
ThreadsReturned ==
    /\ pc = "threads"
    /\ \A t \in Threads : threads[t].pc \in {"resolve", "done"}

\* The threads whose call found no environment in the cache.
MissedThreads == {t \in Threads : threads[t].missed}

\* C24: nothing keeps a second thread from looking the cache up while the
\* first is still constructing: the environment is constructed once for
\* each thread that missed, each of these threads goes on with the object
\* it constructed itself, so two threads that both missed hold different
\* objects, and the cache keeps one of them.
C24_RaceOnFirstConstruction ==
    ThreadsReturned =>
        /\ LastSerial = Cardinality(MissedThreads)
        /\ \A t, u \in MissedThreads :
               t # u => threads[t].env.serial # threads[u].env.serial
        /\ \A t \in Threads :
               /\ threads[t].env.key = model_in.input_file_path
               /\ ~threads[t].missed => threads[t].env = lru_cache[1]
        /\ \E t \in MissedThreads : lru_cache = <<threads[t].env>>

\* The interleaving of the claim: both threads missed, the environment was
\* constructed twice, and the two threads resolved the template with
\* different environment objects.
C24_Witness ==
    /\ pc = "threads"
    /\ \A t \in Threads : threads[t].pc = "done" /\ threads[t].missed
    /\ threads["t1"].env # threads["t2"].env
    /\ LastSerial = Cardinality(Threads)
    /\ threads["t1"].template # NoFile

----------------------------------------------------------------------------
\* The four places a typst template can be in, in the order of the claim.
TypstLocations ==
    << [root |-> OverrideRoot, name |-> ThemeName],
       [root |-> templates_directory, name |-> ThemeName],
       [root |-> OverrideRoot, name |-> FormatName],
       [root |-> templates_directory, name |-> FormatName] >>

OnDisk(file) == file \in files

\* C26: a typst template is rendered from the first existing one of the
\* override directory and the built-in directory under the theme's name,
\* then the override directory and the built-in directory under "typst/";
\* when none of the four exists the call fails with template-not-found.
C26_FourLocationPrecedence ==
    (SingleDone /\ file_type = "typst") =>
        LET existing == SelectSeq(TypstLocations, OnDisk)
        IN  IF existing = <<>>
            THEN result.status = "raised" /\ result.exc = "TemplateNotFound"
            ELSE result.status = "returned" /\ UsedFile = existing[1]

\* The built-in template of the theme wins over the user's file under
\* "typst/" in the override directory.
C26_Witness ==
    /\ SingleDone /\ file_type = "typst"
    /\ ~OnDisk(TypstLocations[1])
    /\ OnDisk(TypstLocations[3])
    /\ result.status = "returned"
    /\ UsedFile = [root |-> templates_directory, name |-> ThemeName]

----------------------------------------------------------------------------
\* A finished render_full_template call of a format that is neither typst
\* nor markdown.
OtherFormatDone == FullCall /\ pc = "done" /\ file_type \notin Extensions

\* C27: render_full_template called with a format other than typst and
\* markdown fails with the KeyError of the extension lookup, in its first
\* step: process_model has not been called, no template has been resolved or
\* rendered, no environment has been built, and the model is as it was.
C27_OnlyTypstAndMarkdown ==
    /\ (FullCall /\ file_type \notin Extensions) => pc \in {"start", "done"}
    /\ OtherFormatDone =>
          /\ result.status = "raised"
          /\ result.exc = "KeyError"
          /\ collaborator_calls = <<>>
          /\ lru_cache = <<>>
          /\ AllRendered = <<>>
          /\ rendercv_model = model_in
          /\ sidebar_section_names = <<>>
          /\ main_section_names = <<>>

\* render_full_template called for html with a model that has sections, and
\* failed.
C27_Witness ==
    /\ OtherFormatDone
    /\ file_type = "html"
    /\ result.exc = "KeyError"
    /\ Len(Sections) > 1

----------------------------------------------------------------------------
\* A finished typst render of a sidebar design with its sidebar field.
SidebarRenderDone ==
    /\ FullCall /\ pc = "done" /\ SidebarAndTypst
    /\ model_in.design.has_sidebar

\* C28: a section is in the sidebar stream exactly when an element of
\* sidebar.sections equals its snake_case_title as it is written; elements
\* that equal no snake_case_title, also those that would after conversion to
\* snake case, and repeated elements cause no failure and put no section
\* into a stream twice: each section is in exactly one stream, once.
C28_VerbatimMembership ==
    SidebarRenderDone =>
        /\ files = AllBuiltInFiles => result.status = "returned"
        /\ result.status = "raised" => result.exc = "TemplateNotFound"
        /\ result.status = "returned" =>
              /\ sidebar_section_names
                     = ModelTitles(SelectSeq(Sections, InSidebar))
              /\ BeginningTitles(SidebarCell)
                     = ModelTitles(SelectSeq(Sections, InSidebar))
              /\ BeginningTitles(MainCell)
                     = ModelTitles(SelectSeq(Sections, NotInSidebar))
              /\ Count(result.value, IsBeginning) = Len(Sections)

\* A two-column document of a model with the sections skills and
\* experience, for a sidebar list that holds "Skills", an unknown name and
\* "experience" twice: experience alone is in the sidebar, once.
C28_Witness ==
    /\ SidebarRenderDone
    /\ result.status = "returned"
    /\ model_in.design.sidebar.sections
           = <<"Skills", "hobbies", "experience", "experience">>
    /\ Len(Sections) > 1
    /\ BeginningTitles(SidebarCell) = <<"experience">>
    /\ BeginningTitles(MainCell) = <<"skills">>

====
